---- MODULE Spec2Model ----
(***************************************************************************)
(* EchoEdit (NB2685/Audio-Extraction): the clip extractor and WAV encoder  *)
(* of AudioService, the Waveform draw effect's downsampler, and the App    *)
(* component's session, selection and playback state.                      *)
(*                                                                         *)
(* Numbers.  A time is an integer count of 1/TimeDen seconds, so that      *)
(* Math.floor(time * sampleRate) is (time * sampleRate) \div TimeDen.  A   *)
(* sample is an integer count of 1/SampleDen, so 1.0 is SampleDen and the  *)
(* products sample * 32768 / sample * 32767 keep their fractional part     *)
(* until the code truncates them.                                          *)
(***************************************************************************)
EXTENDS Integers, Sequences, FiniteSets, TLC

VARIABLES
  \* ---- AudioService / Waveform (SpecAudio)
  pc,          \* "init", "extracted" (extractClip returned or threw), "drawn"
  buffer,      \* the decoded AudioBuffer handed to extractClip / Waveform
  startTime,   \* extractClip's startTime argument
  endTime,     \* extractClip's endTime argument
  clip,        \* outcome of extractClip: threw, newBuffer, blob, source after
  width,       \* canvas.width at the time of the draw effect
  pairs,       \* the (min, max) pair computed for every pixel column
  \* ---- App component (Spec)
  appState,            \* AppState
  audioFile,           \* the File of the last upload, NoFile for null
  audioBuffer,         \* the file the held AudioBuffer was decoded from, NoFile for null
  transcript,          \* TranscriptSegment[]
  isPlaying,
  currentTime,
  duration,
  selectedSegmentIds,  \* the Set<number>, in insertion order
  selectionRange,      \* {start, end} or NoRange for null
  sourceNodeRef,       \* 0 for null, else the index in nodes of the held source node
  startTimeRef,
  rafRef,              \* "null"; "scheduled": the handle of a pending frame callback;
                       \* "stale": the handle of a callback that has run or was cancelled
  uploadPc,            \* where the running handleFileUpload is suspended: "none",
                       \* "decoding" (await decodeAudio), "transcribing" (await transcribeAudio)
  nodes,               \* every AudioBufferSourceNode created, in creation order
  rafOrphans,          \* pending frame callbacks whose handle rafRef no longer holds
  ctxTime,             \* audioContextRef.current.currentTime
  extractResult        \* how the last handleExtract ended: "none" before the first,
                       \* "download" (a.click() on the clip), "alert" (its catch)

audioVars == <<pc, buffer, startTime, endTime, clip, width, pairs>>

appVars ==
  <<appState, audioFile, audioBuffer, transcript, isPlaying, currentTime, duration,
    selectedSegmentIds, selectionRange, sourceNodeRef, startTimeRef, rafRef, uploadPc,
    nodes, rafOrphans, ctxTime, extractResult>>

vars == <<audioVars, appVars>>

-----------------------------------------------------------------------------
(* Bounds of the model *)

MaxFrames == 2      \* short buffers have 0..MaxFrames frames, every content
MaxChannels == 2    \* buffers have 1..MaxChannels channels
MaxExtra == 1       \* long buffers have HeaderLen+1 .. HeaderLen+MaxExtra frames
MaxTime == 3        \* short times are 0..MaxTime (in 1/TimeDen seconds)
MaxWidth == 4       \* canvas widths are 1..MaxWidth
MaxSegs == 2        \* a transcription response holds 0..MaxSegs segments
MaxDuration == 2    \* buffer.duration, in seconds
MaxClock == 2       \* the audio context clock is followed up to MaxClock seconds
MaxNodes == 2       \* at most MaxNodes source nodes are created
TimeDen == 16000    \* time resolution: one unit is 1/TimeDen second
SampleDen == 10     \* sample resolution: one unit is 1/SampleDen

HeaderLen == 44     \* bytes of the WAV header

Min(a, b) == IF a < b THEN a ELSE b
Max(a, b) == IF a > b THEN a ELSE b

SetMin(S) == CHOOSE x \in S : \A y \in S : x <= y
SetMax(S) == CHOOSE x \in S : \A y \in S : x >= y

\* JavaScript's x | 0 on a quotient n/d inside the int32 range: the fractional
\* part is dropped (truncation toward zero).
ToInt32(n, d) == IF n < 0 THEN 0 - ((0 - n) \div d) ELSE n \div d

\* Math.floor on a quotient n/d.
Floor(n, d) == n \div d

\* Math.ceil on a quotient n/d, n >= 0.
Ceil(n, d) == (n + d - 1) \div d

-----------------------------------------------------------------------------
(* Input buffers *)

SampleRates == {8000, 12000}

\* -1.5, -0.7, -0.3, 0, 0.4, 1.2 : outside [-1, 1] on both sides, below and
\* above -0.5, zero, positive.
SampleSeq == <<0 - 15, 0 - 7, 0 - 3, 0, 4, 12>>
Samples == {SampleSeq[i] : i \in 1..Len(SampleSeq)}

SampleIndex(s) == CHOOSE i \in 1..Len(SampleSeq) : SampleSeq[i] = s

\* Channel c's sample derived from channel 0's: the c-th next sample value.
Rotate(s, c) == SampleSeq[((SampleIndex(s) - 1 + c) % Len(SampleSeq)) + 1]

\* An AudioBuffer: channels[c + 1][k + 1] is getChannelData(c)[k].
MakeBuffer(rate, nch, data) ==
  [sampleRate |-> rate,
   numberOfChannels |-> nch,
   length |-> Len(data),
   channels |-> [c \in 1..nch |-> [k \in 1..Len(data) |-> Rotate(data[k], c - 1)]]]

\* data repeated cyclically up to n frames.
Cycle(data, n) == [k \in 1..n |-> data[((k - 1) % Len(data)) + 1]]

ShortData == UNION {[1..n -> Samples] : n \in 0..MaxFrames}
LongData ==
  {Cycle(d, HeaderLen + x) : d \in ShortData \ {<<>>}, x \in 1..MaxExtra}

Buffers ==
  {MakeBuffer(r, c, d) :
     r \in SampleRates, c \in 1..MaxChannels, d \in ShortData \cup LongData}

\* Short times, and times 2 * n that span more frames than the header has bytes.
Times == (0..MaxTime) \cup {2 * (HeaderLen + x) : x \in 1..MaxExtra}

NoBuffer ==
  [sampleRate |-> 0, numberOfChannels |-> 0, length |-> 0, channels |-> <<>>]

-----------------------------------------------------------------------------
(* AudioService.bufferToWav *)

\* new ArrayBuffer(length): zero-filled bytes; view[i + 1] is the byte at offset i.
NewArrayBuffer(length) == [i \in 1..length |-> 0]

\* DataView store with the high-order byte first, for comparison.
DataViewSetBigEndian(view, at, data, n) ==
  IF n = 2
  THEN [view EXCEPT ![at + 1] = (data \div 256) % 256,
                    ![at + 2] = data % 256]
  ELSE [view EXCEPT ![at + 1] = (data \div 16777216) % 256,
                    ![at + 2] = (data \div 65536) % 256,
                    ![at + 3] = (data \div 256) % 256,
                    ![at + 4] = data % 256]

\* view.setUint16 / setInt16 / setUint32 (at, data, true): the n (2 or 4)
\* low-order bytes of data, low byte first.
DataViewSet(view, at, data, n) ==
  IF n = 2
  THEN [view EXCEPT ![at + 1] = data % 256,
                    ![at + 2] = (data \div 256) % 256]
  ELSE [view EXCEPT ![at + 1] = data % 256,
                    ![at + 2] = (data \div 256) % 256,
                    ![at + 3] = (data \div 65536) % 256,
                    ![at + 4] = (data \div 16777216) % 256]

\* The variables setUint16 / setUint32 and the sample loop share: the view, the
\* cursor pos and the sample offset.
setUint16(w, data) == [w EXCEPT !.view = DataViewSet(w.view, w.pos, data, 2), !.pos = @ + 2]

setUint32(w, data) == [w EXCEPT !.view = DataViewSet(w.view, w.pos, data, 4), !.pos = @ + 4]

\* view.setInt16(at, value, true): two's complement, low byte first.
setInt16(view, at, value) == DataViewSet(view, at, value % 65536, 2)

\* The 44-byte header, written through the cursor; yields the writer after it.
WriteHeader(abuffer, length) ==
  LET numOfChan == abuffer.numberOfChannels
      w0  == [view |-> NewArrayBuffer(length), pos |-> 0, offset |-> 0]
      w1  == setUint32(w0, 1179011410)                          \* "RIFF"
      w2  == setUint32(w1, length - 8)                          \* file length - 8
      w3  == setUint32(w2, 1163280727)                          \* "WAVE"
      w4  == setUint32(w3, 544501094)                           \* "fmt "
      w5  == setUint32(w4, 16)                                  \* length = 16
      w6  == setUint16(w5, 1)                                   \* PCM
      w7  == setUint16(w6, numOfChan)
      w8  == setUint32(w7, abuffer.sampleRate)
      w9  == setUint32(w8, abuffer.sampleRate * 2 * numOfChan)  \* avg. bytes/sec
      w10 == setUint16(w9, numOfChan * 2)                       \* block-align
      w11 == setUint16(w10, 16)                                 \* 16-bit
      w12 == setUint32(w11, 1635017060)                         \* "data"
  IN  setUint32(w12, length - w12.pos - 4)                      \* chunk length

\* Math.max(-1, Math.min(1, sample))
ClampSample(sample) == Max(0 - SampleDen, Min(SampleDen, sample))

\* (0.5 + sample < 0 ? sample * 32768 : sample * 32767) | 0 on the clamped sample:
\* 0.5 + s/SampleDen < 0 is SampleDen + 2 * s < 0.
ScaleSample(sample) ==
  LET s == ClampSample(sample)
  IN  IF SampleDen + 2 * s < 0
      THEN ToInt32(s * 32768, SampleDen)
      ELSE ToInt32(s * 32767, SampleDen)

\* for (i = 0; i < numOfChan; i++) {
\*   sample = ...channels[i][pos]...; view.setInt16(44 + offset, sample, true); offset += 2 }
RECURSIVE WriteChannels(_, _, _)
WriteChannels(abuffer, w, i) ==
  IF i < abuffer.numberOfChannels
  THEN WriteChannels(abuffer,
                     [w EXCEPT !.view = setInt16(w.view, HeaderLen + w.offset,
                                                 ScaleSample(abuffer.channels[i + 1][w.pos + 1])),
                               !.offset = @ + 2],
                     i + 1)
  ELSE w

\* while (pos < abuffer.length) { for ...; pos++ }, on the cursor the header left.
RECURSIVE InterleaveLoop(_, _)
InterleaveLoop(abuffer, w) ==
  IF w.pos < abuffer.length
  THEN InterleaveLoop(abuffer, [WriteChannels(abuffer, w, 0) EXCEPT !.pos = @ + 1])
  ELSE w

\* The bytes of the Blob bufferToWav returns.
bufferToWav(abuffer) ==
  LET numOfChan == abuffer.numberOfChannels
      length == abuffer.length * numOfChan * 2 + HeaderLen
  IN  InterleaveLoop(abuffer, WriteHeader(abuffer, length)).view

-----------------------------------------------------------------------------
(* AudioService.extractClip *)

\* Math.floor(time * sampleRate)
SampleAt(time, sampleRate) == Floor(time * sampleRate, TimeDen)

FrameCountInclusive(startSample, endSample) == endSample - startSample + 1

\* const frameCount = endSample - startSample
FrameCount(startSample, endSample) == endSample - startSample

InvalidRangeStrict(frameCount) == frameCount < 0

\* if (frameCount <= 0) throw new Error("Invalid time range")
InvalidRange(frameCount) == frameCount <= 0

\* audioContext.createBuffer(numberOfChannels, frameCount, sampleRate): silence.
createBuffer(numberOfChannels, frameCount, sampleRate) ==
  [sampleRate |-> sampleRate,
   numberOfChannels |-> numberOfChannels,
   length |-> frameCount,
   channels |-> [c \in 1..numberOfChannels |-> [j \in 1..frameCount |-> 0]]]

CopiedSampleUnshifted(channelData, startSample, j, old) ==
  IF j < Len(channelData) THEN channelData[j + 1] ELSE old

\* if (startSample + j < channelData.length) newChannelData[j] = channelData[startSample + j]
CopiedSample(channelData, startSample, j, old) ==
  IF startSample + j < Len(channelData) THEN channelData[startSample + j + 1] ELSE old

\* The two copy loops over the channels and the frames of newBuffer.
CopySegment(buf, newBuffer, startSample, frameCount) ==
  [newBuffer EXCEPT !.channels =
     [c \in 1..buf.numberOfChannels |->
        [j \in 1..frameCount |->
           CopiedSample(buf.channels[c], startSample, j - 1, newBuffer.channels[c][j])]]]

NoClip ==
  [threw |-> "", created |-> FALSE, newBuffer |-> NoBuffer,
   returned |-> FALSE, blob |-> <<>>, source |-> NoBuffer]

\* The outcome of extractClip(buf, start, end): the error thrown ("" if none),
\* whether createBuffer was reached and the buffer it was left with after the
\* copy, whether a Blob was returned and its bytes, and the source buffer after.
extractClip(buf, start, end) ==
  LET sampleRate == buf.sampleRate
      startSample == SampleAt(start, sampleRate)
      endSample == SampleAt(end, sampleRate)
      frameCount == FrameCount(startSample, endSample)
  IN  IF InvalidRange(frameCount)
      THEN [threw |-> "Invalid time range", created |-> FALSE, newBuffer |-> NoBuffer,
            returned |-> FALSE, blob |-> <<>>, source |-> buf]
      ELSE LET newBuffer ==
                 CopySegment(buf, createBuffer(buf.numberOfChannels, frameCount, sampleRate),
                             startSample, frameCount)
           IN  [threw |-> "", created |-> TRUE, newBuffer |-> newBuffer,
                returned |-> TRUE, blob |-> bufferToWav(newBuffer), source |-> buf]

-----------------------------------------------------------------------------
(* Waveform draw effect: the per-column extrema *)

\* for (let j = 0; j < step; j++) { datum = data[i * step + j]; ... }: a read past
\* the end is undefined and both comparisons with it are false.
RECURSIVE ColumnScan(_, _, _, _, _, _)
ColumnScan(data, i, step, j, min, max) ==
  IF j < step
  THEN IF i * step + j < Len(data)
       THEN LET datum == data[i * step + j + 1]
            IN  ColumnScan(data, i, step, j + 1,
                           IF datum < min THEN datum ELSE min,
                           IF datum > max THEN datum ELSE max)
       ELSE ColumnScan(data, i, step, j + 1, min, max)
  ELSE [min |-> min, max |-> max]

\* const step = Math.ceil(data.length / width)
Step(length, w) == Ceil(length, w)

\* The (min, max) of every column i in [0, width), from channel 0 only.
WaveformColumns(abuffer, w) ==
  LET data == abuffer.channels[1]                     \* getChannelData(0)
      step == Step(Len(data), w)
  IN  [i \in 1..w |-> ColumnScan(data, i - 1, step, 0, SampleDen, 0 - SampleDen)]

-----------------------------------------------------------------------------
(* Files, and what the decoder and the transcription service make of them *)

\* What reading an absent property gives.
Undefined == "undefined"

SeqsUpTo(S, n) == UNION {[1..k -> S] : k \in 0..n}

\* Segments as the service is asked to return them: text, start < end, in seconds;
\* here each lasts one second.  Nothing orders the segments of a response among
\* themselves.
SegTimes == {0, 1, 2}

RawSegs ==
  {[text |-> "a", start |-> se[1], end |-> se[2]] :
     se \in {x \in SegTimes \X SegTimes : x[2] = x[1] + 1}}

\* The JSON arrays of a response: segments with every field, and one-segment
\* arrays whose object lacks the "text" field.
RawTranscripts ==
  SeqsUpTo(RawSegs, MaxSegs) \cup {<<[seg EXCEPT !.text = Undefined]>> : seg \in RawSegs}

\* A response of generateContent: the call rejects ("network_error"), response.text
\* is empty ("empty"), is not JSON ("non_json"), is JSON but no array
\* ("not_array"), or is a JSON array of segment objects ("array").
Responses ==
  {[kind |-> k, segments |-> <<>>] : k \in {"network_error", "empty", "non_json", "not_array"}}
    \cup {[kind |-> "array", segments |-> t] : t \in RawTranscripts}

NoResponse == [kind |-> "none", segments |-> <<>>]

NoFile == [decodes |-> FALSE, duration |-> 0, response |-> NoResponse]

\* A file: whether decodeAudioData accepts it, the duration of the decoded
\* buffer, and what the transcription service answers for it.  The files whose
\* transcription fails come in two durations.
Files ==
  {[decodes |-> FALSE, duration |-> MaxDuration, response |-> NoResponse]}
    \cup {[decodes |-> TRUE, duration |-> MaxDuration, response |-> r] : r \in Responses}
    \cup {[decodes |-> TRUE, duration |-> MaxDuration - 1, response |-> r] :
            r \in {x \in Responses : x.kind # "array"}}

\* GeminiService.transcribeAudio: throws, or maps the parsed array to segments
\* with id = index; a field the object lacks is copied as undefined.
transcribeAudio(file) ==
  LET r == file.response
  IN  IF r.kind # "array"
      THEN [threw |-> TRUE, segments |-> <<>>]
      ELSE [threw |-> FALSE,
            segments |-> [index \in 1..Len(r.segments) |->
                            [id |-> index - 1,
                             text |-> r.segments[index].text,
                             start |-> r.segments[index].start,
                             end |-> r.segments[index].end]]]

-----------------------------------------------------------------------------
(* App: selection *)

NoRange == [null |-> TRUE, start |-> 0, end |-> 0]

Range(s, e) == [null |-> FALSE, start |-> s, end |-> e]

Elems(q) == {q[i] : i \in 1..Len(q)}

\* transcript.find(s => s.id === id): the index of the first match, 0 for undefined.
Find(tr, id) ==
  IF \E i \in 1..Len(tr) : tr[i].id = id
  THEN CHOOSE i \in 1..Len(tr) : tr[i].id = id /\ \A j \in 1..(i - 1) : tr[j].id # id
  ELSE 0

\* The effect with ids taken in insertion order, unsorted.
selectionEffectUnsorted(ids, tr, old) ==
  IF Len(ids) = 0
  THEN NoRange
  ELSE LET firstSeg == Find(tr, ids[1])
           lastSeg == Find(tr, ids[Len(ids)])
       IN  IF firstSeg # 0 /\ lastSeg # 0
           THEN Range(tr[firstSeg].start, tr[lastSeg].end)
           ELSE old

\* useEffect(..., [selectedSegmentIds, transcript]): the selection range after the
\* effect has run, old being the range before.
selectionEffect(ids, tr, old) ==
  IF Len(ids) = 0
  THEN NoRange
  ELSE LET firstSeg == Find(tr, SetMin(Elems(ids)))    \* ids sorted ascending: ids[0]
           lastSeg == Find(tr, SetMax(Elems(ids)))     \* ids[ids.length - 1]
       IN  IF firstSeg # 0 /\ lastSeg # 0
           THEN Range(tr[firstSeg].start, tr[lastSeg].end)
           ELSE old

RECURSIVE IdsBetweenByPosition(_, _, _, _)
\* The range built from the positions 1, 2, ... of the segments, not their ids.
IdsBetweenByPosition(tr, i, start, end) ==
  IF i > Len(tr)
  THEN <<>>
  ELSE IF tr[i].id >= start /\ tr[i].id <= end
       THEN <<i>> \o IdsBetweenByPosition(tr, i + 1, start, end)
       ELSE IdsBetweenByPosition(tr, i + 1, start, end)

RECURSIVE IdsBetween(_, _, _, _)
\* transcript.forEach(t => { if (t.id >= start && t.id <= end) range.add(t.id) })
IdsBetween(tr, i, start, end) ==
  IF i > Len(tr)
  THEN <<>>
  ELSE IF tr[i].id >= start /\ tr[i].id <= end
       THEN <<tr[i].id>> \o IdsBetween(tr, i + 1, start, end)
       ELSE IdsBetween(tr, i + 1, start, end)

Without(q, x) == SelectSeq(q, LAMBDA y : y # x)

\* The Set handleSegmentClick passes to setSelectedSegmentIds.
ClickedSelection(ids, tr, id, e) ==
  IF e.shiftKey
  THEN IF Len(ids) = 0
       THEN <<id>>
       ELSE LET lastId == ids[Len(ids)]                \* Array.from(set).pop()
            IN  IdsBetween(tr, 1, Min(lastId, id), Max(lastId, id))
  ELSE IF e.ctrlKey
       THEN IF id \in Elems(ids) THEN Without(ids, id) ELSE Append(ids, id)
       ELSE <<id>>

-----------------------------------------------------------------------------
(* App: playback.  The handlers work on p, the playback state they share. *)

Player ==
  [isPlaying |-> isPlaying, currentTime |-> currentTime, sourceNodeRef |-> sourceNodeRef,
   startTimeRef |-> startTimeRef, rafRef |-> rafRef, rafOrphans |-> rafOrphans,
   nodes |-> nodes]

SetPlayer(p) ==
  /\ isPlaying' = p.isPlaying
  /\ currentTime' = p.currentTime
  /\ sourceNodeRef' = p.sourceNodeRef
  /\ startTimeRef' = p.startTimeRef
  /\ rafRef' = p.rafRef
  /\ rafOrphans' = p.rafOrphans
  /\ nodes' = p.nodes

\* source.stop() on node n (inside try / catch).
StopNode(ns, n) == [ns EXCEPT ![n] = [state |-> "stopped", endsAt |-> 0]]

\* source.start(0, startOffset): the node plays until the end of the buffer.
StartedNode(startOffset) ==
  IF startOffset < duration
  THEN [state |-> "playing", endsAt |-> ctxTime + duration - startOffset]
  ELSE [state |-> "ended", endsAt |-> 0]

\* A cancelAnimationFrame that leaves the callback pending.
cancelAnimationFrameNoop(p) == p

\* cancelAnimationFrame(rafRef.current)
cancelAnimationFrame(p) ==
  [p EXCEPT !.rafRef = IF @ = "scheduled" THEN "stale" ELSE @]

\* rafRef.current = requestAnimationFrame(loop)
requestAnimationFrame(p) ==
  [p EXCEPT !.rafOrphans = IF p.rafRef = "scheduled" THEN @ + 1 ELSE @,
            !.rafRef = "scheduled"]

\* The animation loop of playAudio.
loop(p) ==
  LET now == ctxTime - p.startTimeRef
  IN  IF now >= duration
      THEN cancelAnimationFrame([p EXCEPT !.isPlaying = FALSE, !.currentTime = duration])
      ELSE requestAnimationFrame([p EXCEPT !.currentTime = now])

playAudio(p, startOffset) ==
  IF audioBuffer = NoFile
  THEN p
  ELSE LET p1 == IF p.sourceNodeRef # 0
                 THEN [p EXCEPT !.nodes = StopNode(@, p.sourceNodeRef)]
                 ELSE p
           p2 == [p1 EXCEPT !.nodes = Append(@, StartedNode(startOffset)),
                            !.startTimeRef = ctxTime - startOffset,
                            !.sourceNodeRef = Len(p1.nodes) + 1,
                            !.isPlaying = TRUE]
       IN  loop(p2)

\* stopAudio that drops the node without stopping it.
stopAudioDropOnly(p) ==
  LET p1 == [p EXCEPT !.sourceNodeRef = 0]
      p2 == IF p1.rafRef # "null" THEN cancelAnimationFrame(p1) ELSE p1
  IN  [p2 EXCEPT !.isPlaying = FALSE]

stopAudio(p) ==
  LET p1 == IF p.sourceNodeRef # 0
            THEN [p EXCEPT !.nodes = StopNode(@, p.sourceNodeRef), !.sourceNodeRef = 0]
            ELSE p
      p2 == IF p1.rafRef # "null" THEN cancelAnimationFrame(p1) ELSE p1
  IN  [p2 EXCEPT !.isPlaying = FALSE]

handleSeek(p, time) ==
  LET wasPlaying == isPlaying
      p1 == [stopAudio(p) EXCEPT !.currentTime = time]
  IN  IF wasPlaying THEN playAudio(p1, time) ELSE p1

togglePlayback(p) == IF isPlaying THEN stopAudio(p) ELSE playAudio(p, currentTime)

handlePlaySelection(p) ==
  IF selectionRange.null THEN p ELSE playAudio(stopAudio(p), selectionRange.start)

\* Creating one more source node stays within the bound.
CanCreate == Len(nodes) < MaxNodes

-----------------------------------------------------------------------------
(* App: the state after mount, and the actions *)

AppMounted ==
  /\ appState = "IDLE"
  /\ audioFile = NoFile
  /\ audioBuffer = NoFile
  /\ transcript = <<>>
  /\ isPlaying = FALSE
  /\ currentTime = 0
  /\ duration = 0
  /\ selectedSegmentIds = <<>>
  /\ selectionRange = NoRange
  /\ sourceNodeRef = 0
  /\ startTimeRef = 0
  /\ rafRef = "null"
  /\ uploadPc = "none"
  /\ nodes = <<>>
  /\ rafOrphans = 0
  /\ ctxTime = 0
  /\ extractResult = "none"

AudioIdle ==
  /\ pc = "none"
  /\ buffer = NoBuffer
  /\ startTime = 0
  /\ endTime = 0
  /\ clip = NoClip
  /\ width = 0
  /\ pairs = <<>>

Init == AppMounted /\ AudioIdle

playbackVars ==
  <<isPlaying, currentTime, sourceNodeRef, startTimeRef, rafRef, rafOrphans, nodes>>

selectionVars == <<selectedSegmentIds, selectionRange>>

\* handleFileUpload up to its first await; the file input is rendered in IDLE only.
HandleFileUpload(file) ==
  /\ appState = "IDLE"
  /\ uploadPc = "none"
  /\ audioFile' = file
  /\ appState' = "UPLOADING"
  /\ uploadPc' = "decoding"
  /\ UNCHANGED <<audioBuffer, transcript, duration, selectionVars, playbackVars, ctxTime,
                 extractResult, audioVars>>

\* A decode that keeps the duration the session held.
DecodeSettledKeepsDuration ==
  /\ uploadPc = "decoding"
  /\ IF audioFile.decodes
     THEN /\ audioBuffer' = audioFile
          /\ appState' = "TRANSCRIBING"
          /\ uploadPc' = "transcribing"
     ELSE /\ appState' = "ERROR"
          /\ uploadPc' = "none"
          /\ UNCHANGED audioBuffer
  /\ UNCHANGED <<audioFile, transcript, duration, selectionVars, playbackVars, ctxTime,
                 extractResult, audioVars>>

\* decodeAudio settles: the handler goes on to the transcription, or to its catch.
DecodeSettled ==
  /\ uploadPc = "decoding"
  /\ IF audioFile.decodes
     THEN /\ audioBuffer' = audioFile
          /\ duration' = audioFile.duration
          /\ appState' = "TRANSCRIBING"
          /\ uploadPc' = "transcribing"
     ELSE /\ appState' = "ERROR"
          /\ uploadPc' = "none"
          /\ UNCHANGED <<audioBuffer, duration>>
  /\ UNCHANGED <<audioFile, transcript, selectionVars, playbackVars, ctxTime,
                 extractResult, audioVars>>

\* transcribeAudio settles: the handler finishes, or goes to its catch.  When the
\* transcript is set the selection effect runs again.
TranscribeSettled ==
  /\ uploadPc = "transcribing"
  /\ uploadPc' = "none"
  /\ LET r == transcribeAudio(audioFile)
     IN  IF r.threw
         THEN /\ appState' = "ERROR"
              /\ UNCHANGED <<transcript, selectionRange>>
         ELSE /\ transcript' = r.segments
              /\ appState' = "READY"
              /\ selectionRange' = selectionEffect(selectedSegmentIds, r.segments, selectionRange)
  /\ UNCHANGED <<audioFile, audioBuffer, duration, selectedSegmentIds, playbackVars, ctxTime,
                 extractResult, audioVars>>

\* The Try Again button, rendered in ERROR only.
TryAgain ==
  /\ appState = "ERROR"
  /\ appState' = "IDLE"
  /\ UNCHANGED <<audioFile, audioBuffer, transcript, duration, selectionVars, playbackVars,
                 uploadPc, ctxTime, extractResult, audioVars>>

\* The play / pause button of the editor.
TogglePlayback ==
  /\ appState = "READY"
  /\ isPlaying \/ CanCreate
  /\ SetPlayer(togglePlayback(Player))
  /\ UNCHANGED <<appState, audioFile, audioBuffer, transcript, duration, selectionVars,
                 uploadPc, ctxTime, extractResult, audioVars>>

\* A click on the waveform: onSeek(percent * duration).
HandleSeek(time) ==
  /\ appState = "READY"
  /\ ~isPlaying \/ CanCreate
  /\ SetPlayer(handleSeek(Player, time))
  /\ UNCHANGED <<appState, audioFile, audioBuffer, transcript, duration, selectionVars,
                 uploadPc, ctxTime, extractResult, audioVars>>

\* A click on the rendered segment id with the modifier keys e, and the selection
\* effect that follows the state change.
HandleSegmentClick(id, e) ==
  /\ appState = "READY"
  /\ Find(transcript, id) # 0
  /\ LET plain == ~e.shiftKey /\ ~e.ctrlKey
         ids == ClickedSelection(selectedSegmentIds, transcript, id, e)
         segment == Find(transcript, id)
     IN  /\ (plain /\ isPlaying) => CanCreate
         /\ selectedSegmentIds' = ids
         /\ selectionRange' = selectionEffect(ids, transcript, selectionRange)
         /\ IF plain /\ segment # 0
            THEN SetPlayer(handleSeek(Player, transcript[segment].start))
            ELSE UNCHANGED playbackVars
  /\ UNCHANGED <<appState, audioFile, audioBuffer, transcript, duration, uploadPc, ctxTime,
                 extractResult, audioVars>>

\* The Play Selection button, rendered while selectionRange is not null.
HandlePlaySelection ==
  /\ appState = "READY"
  /\ ~selectionRange.null
  /\ CanCreate
  /\ SetPlayer(handlePlaySelection(Player))
  /\ UNCHANGED <<appState, audioFile, audioBuffer, transcript, duration, selectionVars,
                 uploadPc, ctxTime, extractResult, audioVars>>

\* audioService.extractClip(audioBuffer, start, end) throws: its frame count test,
\* on a buffer of the given sample rate and times in seconds.
ExtractThrows(sampleRate, start, end) ==
  InvalidRange(FrameCount(SampleAt(start * TimeDen, sampleRate),
                          SampleAt(end * TimeDen, sampleRate)))

\* handleExtract past its guard: the clip is downloaded, or the catch alerts.
handleExtract(sampleRate) ==
  IF ExtractThrows(sampleRate, selectionRange.start, selectionRange.end)
  THEN "alert"
  ELSE "download"

\* The Extract Clip button, rendered while selectionRange is not null; the decoded
\* buffer has the sample rate of the decoding context.
HandleExtract ==
  /\ appState = "READY"
  /\ ~selectionRange.null
  /\ audioBuffer # NoFile
  /\ \E sampleRate \in SampleRates : extractResult' = handleExtract(sampleRate)
  /\ UNCHANGED <<appState, audioFile, audioBuffer, transcript, duration, selectionVars,
                 playbackVars, uploadPc, ctxTime, audioVars>>

\* A pending animation-frame callback runs loop.
AnimationFrame ==
  /\ \E f \in (IF rafRef = "scheduled" THEN {"held"} ELSE {})
                \cup (IF rafOrphans > 0 THEN {"orphan"} ELSE {}) :
       SetPlayer(loop(IF f = "held"
                      THEN [Player EXCEPT !.rafRef = "stale"]
                      ELSE [Player EXCEPT !.rafOrphans = @ - 1]))
  /\ UNCHANGED <<appState, audioFile, audioBuffer, transcript, duration, selectionVars,
                 uploadPc, ctxTime, extractResult, audioVars>>

\* The audio clock advances by a second; a playing node whose buffer is played
\* out ends.
AdvanceClock ==
  /\ ctxTime < MaxClock
  /\ ctxTime' = ctxTime + 1
  /\ nodes' = [n \in 1..Len(nodes) |->
                 IF nodes[n].state = "playing" /\ nodes[n].endsAt <= ctxTime + 1
                 THEN [state |-> "ended", endsAt |-> 0]
                 ELSE nodes[n]]
  /\ UNCHANGED <<appState, audioFile, audioBuffer, transcript, isPlaying, currentTime,
                 duration, selectionVars, sourceNodeRef, startTimeRef, rafRef, uploadPc,
                 rafOrphans, extractResult, audioVars>>

Modifiers == [shiftKey : BOOLEAN, ctrlKey : BOOLEAN]

Next ==
  \/ \E file \in Files : HandleFileUpload(file)
  \/ DecodeSettled
  \/ TranscribeSettled
  \/ TryAgain
  \/ TogglePlayback
  \/ \E time \in 0..duration : HandleSeek(time)
  \/ \E id \in 0..(MaxSegs - 1), e \in Modifiers : HandleSegmentClick(id, e)
  \/ HandlePlaySelection
  \/ HandleExtract
  \/ AnimationFrame
  \/ AdvanceClock

Spec == Init /\ [][Next]_vars

-----------------------------------------------------------------------------
(* SpecAudio: one call of extractClip, or one run of the draw effect, on every
   input buffer *)

InitAudio ==
  /\ pc = "init"
  /\ buffer \in Buffers
  /\ startTime = 0
  /\ endTime = 0
  /\ clip = NoClip
  /\ width = 0
  /\ pairs = <<>>
  /\ AppMounted

ExtractClip(s, e) ==
  /\ pc = "init"
  /\ pc' = "extracted"
  /\ startTime' = s
  /\ endTime' = e
  /\ clip' = extractClip(buffer, s, e)
  /\ UNCHANGED <<buffer, width, pairs, appVars>>

DrawWaveform(w) ==
  /\ pc = "init"
  /\ pc' = "drawn"
  /\ width' = w
  /\ pairs' = WaveformColumns(buffer, w)
  /\ UNCHANGED <<buffer, startTime, endTime, clip, appVars>>

NextAudio ==
  \/ \E s \in Times, e \in Times : ExtractClip(s, e)
  \/ \E w \in 1..MaxWidth : DrawWaveform(w)

SpecAudio == InitAudio /\ [][NextAudio]_vars

-----------------------------------------------------------------------------
(* Reading the encoder's bytes back *)

U16At(bytes, off) == bytes[off + 1] + 256 * bytes[off + 2]

U32At(bytes, off) ==
  bytes[off + 1] + 256 * bytes[off + 2] + 65536 * bytes[off + 3] + 16777216 * bytes[off + 4]

S16At(bytes, off) ==
  LET u == U16At(bytes, off) IN IF u >= 32768 THEN u - 65536 ELSE u

\* floor(endTime * sampleRate) - floor(startTime * sampleRate) of the call made.
ClaimedFrames ==
  ((endTime * buffer.sampleRate) \div TimeDen) - ((startTime * buffer.sampleRate) \div TimeDen)

ClaimedStart == (startTime * buffer.sampleRate) \div TimeDen

ClipShapeAsClaimed ==
  /\ clip.threw = ""
  /\ clip.created
  /\ clip.returned
  /\ clip.newBuffer.length = ClaimedFrames
  /\ \A c \in 1..clip.newBuffer.numberOfChannels :
       Len(clip.newBuffer.channels[c]) = ClaimedFrames
  /\ clip.newBuffer.sampleRate = buffer.sampleRate
  /\ clip.newBuffer.numberOfChannels = buffer.numberOfChannels

-----------------------------------------------------------------------------
(* Claims about extractClip *)

\* C1 as stated: for every startTime >= 0 and endTime > startTime extractClip
\* succeeds, and the clip buffer has floor(endTime*sampleRate) -
\* floor(startTime*sampleRate) frames and the input's sampleRate and channels.
C1_AsClaimed ==
  (pc = "extracted" /\ startTime >= 0 /\ endTime > startTime) => ClipShapeAsClaimed

\* C1 amended: the same, for the ranges whose floor(endTime*sampleRate) exceeds
\* floor(startTime*sampleRate); a range inside one sample period is rejected.
C1_ClipShape ==
  (pc = "extracted" /\ startTime >= 0 /\ endTime > startTime /\ ClaimedFrames > 0)
    => ClipShapeAsClaimed

\* A range that starts inside the source and holds several frames was extracted.
C1_Witness ==
  /\ pc = "extracted"
  /\ startTime > 0
  /\ endTime > startTime
  /\ clip.created
  /\ clip.newBuffer.length > 1
  /\ clip.newBuffer.numberOfChannels = 2

\* C2: whenever endTime <= startTime, and more generally whenever
\* floor(endTime*sampleRate) - floor(startTime*sampleRate) <= 0, extractClip throws
\* the invalid-range error before creating a clip buffer and returns no blob.
C2_InvalidRange ==
  (pc = "extracted" /\ (endTime <= startTime \/ ClaimedFrames <= 0))
    => /\ clip.threw = "Invalid time range"
       /\ ~clip.created
       /\ ~clip.returned

\* A reversed range was rejected.
C2_Witness ==
  /\ pc = "extracted"
  /\ endTime < startTime
  /\ buffer.length > 0
  /\ clip.threw = "Invalid time range"

\* C3: every sample j of every channel c of the clip buffer is the source's
\* sample startSample + j when that index is inside the source and 0 otherwise;
\* a range running past the end of the source does not fail; the source buffer
\* is left as it was.
C3_CopyOrSilence ==
  (pc = "extracted" /\ ClaimedFrames > 0)
    => /\ clip.threw = ""
       /\ clip.created
       /\ clip.source = buffer
       /\ \A c \in 1..buffer.numberOfChannels :
            \A j \in 0..(clip.newBuffer.length - 1) :
              clip.newBuffer.channels[c][j + 1] =
                IF ClaimedStart + j < buffer.length
                THEN buffer.channels[c][ClaimedStart + j + 1]
                ELSE 0

\* A range starting after frame 0 and running past the end of the source was
\* extracted: it holds a copied non-zero sample and trailing silence.
C3_Witness ==
  /\ pc = "extracted"
  /\ clip.created
  /\ ClaimedStart > 0
  /\ ClaimedStart < buffer.length
  /\ ClaimedStart + clip.newBuffer.length > buffer.length
  /\ clip.newBuffer.channels[1][1] # 0

-----------------------------------------------------------------------------
(* Claims about bufferToWav, on the clip buffer extractClip hands it *)

\* C4 as stated: for every frame k and channel c of the encoder's input, the
\* 16-bit little-endian value at byte offset 44 + 2*(k*C + c) is the converted
\* sample of channel c at frame k (frames ascending from frame 0, none skipped).
C4_AsClaimed ==
  (pc = "extracted" /\ clip.returned)
    => LET b == clip.newBuffer
       IN  \A k \in 0..(b.length - 1) : \A c \in 0..(b.numberOfChannels - 1) :
             S16At(clip.blob, HeaderLen + 2 * (k * b.numberOfChannels + c))
               = ScaleSample(b.channels[c + 1][k + 1])

\* Clamp to [-1, 1], then round toward negative infinity
\* (s < 0 ? s * 32768 : s * 32767).
ConversionAsClaimed(sample) ==
  LET s == Max(0 - SampleDen, Min(SampleDen, sample))
  IN  IF s < 0 THEN (s * 32768) \div SampleDen ELSE (s * 32767) \div SampleDen

\* C5 as stated: every value the encoder writes is the clamped sample scaled by
\* 32768 when negative and by 32767 otherwise, rounded toward negative infinity.
\* (The encoder converts frame p into sample slot p - 44; see C4.)
C5_AsClaimed ==
  (pc = "extracted" /\ clip.returned)
    => LET b == clip.newBuffer
       IN  \A p \in HeaderLen..(b.length - 1) : \A c \in 0..(b.numberOfChannels - 1) :
             S16At(clip.blob, HeaderLen + 2 * ((p - HeaderLen) * b.numberOfChannels + c))
               = ConversionAsClaimed(b.channels[c + 1][p + 1])

\* C6: the encoder's output is 44 + 2*F*C bytes long and its header holds, little
\* endian: total size = length - 8, format 1, channel count C, sample rate R,
\* byte rate R*C*2, block alignment C*2, bit depth 16, data length 2*F*C.
C6_Header ==
  (pc = "extracted" /\ clip.returned)
    => LET b == clip.newBuffer
           F == b.length
           C == b.numberOfChannels
           R == b.sampleRate
       IN  /\ Len(clip.blob) = 44 + 2 * F * C
           /\ U32At(clip.blob, 4) = Len(clip.blob) - 8
           /\ U16At(clip.blob, 20) = 1
           /\ U16At(clip.blob, 22) = C
           /\ U32At(clip.blob, 24) = R
           /\ U32At(clip.blob, 28) = R * C * 2
           /\ U16At(clip.blob, 32) = C * 2
           /\ U16At(clip.blob, 34) = 16
           /\ U32At(clip.blob, 40) = 2 * F * C

\* A stereo clip longer than the header was encoded.
C6_Witness ==
  /\ pc = "extracted"
  /\ clip.returned
  /\ clip.newBuffer.numberOfChannels = 2
  /\ clip.newBuffer.length > HeaderLen
  /\ Len(clip.blob) > 3 * HeaderLen

-----------------------------------------------------------------------------
(* Claims about the waveform downsampler *)

\* C7 as stated: the draw effect computes exactly width pairs from channel 0;
\* with step = ceil(n / width), pair i is the minimum and maximum of samples
\* [i*step, min((i+1)*step, n)), and (1.0, -1.0) when that group is empty.
C7_AsClaimed ==
  pc = "drawn"
    => /\ Len(pairs) = width
       /\ \A i \in 0..(width - 1) :
            LET n == buffer.length
                step == (n + width - 1) \div width
                group == {buffer.channels[1][k + 1] :
                            k \in (i * step)..(Min((i + 1) * step, n) - 1)}
            IN  pairs[i + 1] =
                  IF group = {}
                  THEN [min |-> SampleDen, max |-> 0 - SampleDen]
                  ELSE [min |-> SetMin(group), max |-> SetMax(group)]

-----------------------------------------------------------------------------
(* Claims about the App's selection, playback and upload *)

SegmentOf(id) == transcript[Find(transcript, id)]

SelectedStarts == {SegmentOf(id).start : id \in Elems(selectedSegmentIds)}

SelectedEnds == {SegmentOf(id).end : id \in Elems(selectedSegmentIds)}

\* Starts and ends do not decrease along the transcript.
TimeOrdered ==
  \A i \in 1..Len(transcript) : \A j \in i..Len(transcript) :
    transcript[i].start <= transcript[j].start /\ transcript[i].end <= transcript[j].end

\* C8 as stated: whenever the selected set is non-empty, the selection range has
\* start = the smallest start among the selected segments and end = the largest
\* end among them, so end > start.
C8_AsClaimed ==
  (appState = "READY" /\ selectedSegmentIds # <<>>)
    => /\ ~selectionRange.null
       /\ selectionRange.start = SetMin(SelectedStarts)
       /\ selectionRange.end = SetMax(SelectedEnds)
       /\ selectionRange.end > selectionRange.start

\* C8 amended: whenever the selected set is non-empty, the selection range has the
\* start of the selected segment with the smallest id and the end of the selected
\* segment with the largest id; when the transcript is ordered by time these are
\* the smallest start and the largest end among the selected, and end > start.
C8_RangeOfFirstAndLast ==
  (appState = "READY" /\ selectedSegmentIds # <<>>)
    => /\ ~selectionRange.null
       /\ selectionRange.start = SegmentOf(SetMin(Elems(selectedSegmentIds))).start
       /\ selectionRange.end = SegmentOf(SetMax(Elems(selectedSegmentIds))).end
       /\ TimeOrdered
            => /\ selectionRange.start = SetMin(SelectedStarts)
               /\ selectionRange.end = SetMax(SelectedEnds)
               /\ selectionRange.end > selectionRange.start

\* Two different segments of a time-ordered transcript are selected, the later
\* one first.
C8_Witness ==
  /\ appState = "READY"
  /\ selectedSegmentIds = <<1, 0>>
  /\ TimeOrdered
  /\ transcript[1].end <= transcript[2].start
  /\ selectionRange = Range(transcript[1].start, transcript[2].end)

\* C9: at most one source node is started and not yet stopped: every node other
\* than the one sourceNodeRef holds has been stopped, so at most one is playing.
C9_OneSource ==
  /\ Cardinality({n \in 1..Len(nodes) : nodes[n].state = "playing"}) <= 1
  /\ \A n \in 1..Len(nodes) : nodes[n].state # "stopped" => n = sourceNodeRef

\* A second source was started while the first was playing: the first is
\* stopped, the second plays.
C9_Witness ==
  /\ Len(nodes) >= 2
  /\ nodes[1].state = "stopped"
  /\ nodes[2].state = "playing"
  /\ sourceNodeRef = 2
  /\ isPlaying

\* The upload of f meets a decode failure or a transcription failure: a network
\* error, an empty, non-JSON or non-array response, or a segment lacking a field.
FailingUpload(f) ==
  \/ ~f.decodes
  \/ f.response.kind \in {"network_error", "empty", "non_json", "not_array"}
  \/ \E i \in 1..Len(f.response.segments) : f.response.segments[i].text = Undefined

\* C10 as stated: an upload that meets a decode or transcription failure never
\* brings the session to READY.
C10_AsClaimed == appState = "READY" => ~FailingUpload(audioFile)

-----------------------------------------------------------------------------
(* Claims about recovery from failures *)

\* The session holds no decoded buffer, no duration, no transcript segment and no
\* selection.
HoldsNothing ==
  /\ audioBuffer = NoFile
  /\ duration = 0
  /\ transcript = <<>>
  /\ selectedSegmentIds = <<>>
  /\ selectionRange = NoRange

\* A Try Again step after a failed upload.
RetryStep == appState = "ERROR" /\ appState' = "IDLE"

\* A handleExtract step whose extractClip throws.
FailedExtractStep ==
  /\ HandleExtract
  /\ \A sampleRate \in SampleRates :
       ExtractThrows(sampleRate, selectionRange.start, selectionRange.end)

\* C11 as stated: after a failed upload and Try Again the session is in IDLE
\* holding nothing of the failed attempt (no decoded buffer, no duration, no
\* transcript segment, no selection), and a failed extraction leaves the session
\* state, the decoded buffer, the transcript and the selection unchanged and
\* produces no download.
C11_AsClaimed ==
  [][/\ RetryStep => HoldsNothing'
     /\ FailedExtractStep
          => /\ UNCHANGED <<appState, audioBuffer, transcript, selectedSegmentIds,
                            selectionRange>>
             /\ extractResult' = "alert"]_vars

-----------------------------------------------------------------------------
(* Claims about stopping playback *)

\* The animation-frame callbacks that are pending.
PendingFrames(p) == (IF p.rafRef = "scheduled" THEN 1 ELSE 0) + p.rafOrphans

\* Playback is stopped and discarded: not playing, no source node held, no
\* callback pending.
Discarded(p) == ~p.isPlaying /\ p.sourceNodeRef = 0 /\ PendingFrames(p) = 0

\* The tick that runs finds the playback position at or past the end.
TickAtEnd == AnimationFrame /\ ctxTime - startTimeRef >= duration

\* C12: stopping playback is a stop-and-discard: after stopAudio (the pause, or
\* the stop step of a seek or of play-selection, from any state) isPlaying is
\* false, no source node is held and no animation-frame callback is pending;
\* while playback is not started no callback is pending, so ticks run only while
\* isPlaying and currentTime is not advanced by a tick until playback is started
\* again; at most one callback is pending at any time; and the tick that finds
\* the position at the end leaves isPlaying false, currentTime = duration and no
\* callback pending.
C12_StopAndDiscard ==
  /\ [](/\ Discarded(stopAudio(Player))
        /\ ~isPlaying => PendingFrames(Player) = 0
        /\ PendingFrames(Player) <= 1)
  /\ [][/\ (isPlaying /\ TogglePlayback) => Discarded(Player)'
        /\ AnimationFrame => isPlaying
        /\ (~isPlaying /\ ~isPlaying' /\ currentTime' # currentTime)
             => \E time \in 0..duration : currentTime' = time /\ sourceNodeRef' = 0
        /\ TickAtEnd
             => /\ ~isPlaying'
                /\ currentTime' = duration
                /\ PendingFrames(Player)' = 0]_vars

\* Playback was started at 0, a tick advanced currentTime to 1, playback was
\* paused, and the clock went on to 2 with currentTime left at 1.
C12_Witness ==
  /\ appState = "READY"
  /\ ~isPlaying
  /\ sourceNodeRef = 0
  /\ rafRef = "stale"
  /\ Len(nodes) = 1
  /\ nodes[1].state = "stopped"
  /\ startTimeRef = 0
  /\ currentTime = 1
  /\ ctxTime = 2

-----------------------------------------------------------------------------
(* Claims about the session state *)

\* The moves of appState the claim allows.
SessionMoves ==
  {<<"IDLE", "UPLOADING">>, <<"UPLOADING", "TRANSCRIBING">>, <<"TRANSCRIBING", "READY">>,
   <<"UPLOADING", "ERROR">>, <<"TRANSCRIBING", "ERROR">>, <<"ERROR", "IDLE">>}

\* C13: appState only moves IDLE -> UPLOADING -> TRANSCRIBING -> READY, to ERROR
\* from UPLOADING or TRANSCRIBING, and to IDLE from ERROR; and whenever it is
\* READY the decoded buffer is not null and the buffer, the duration and the
\* transcript are those of audioFile, the file uploaded last.
C13_SessionStates ==
  /\ [](appState = "READY"
          => /\ audioBuffer # NoFile
             /\ audioBuffer = audioFile
             /\ duration = audioFile.duration
             /\ ~transcribeAudio(audioFile).threw
             /\ transcript = transcribeAudio(audioFile).segments)
  /\ [][appState' # appState => <<appState, appState'>> \in SessionMoves]_vars

\* The editor shows a file of full length with a transcript of two segments.
C13_Witness ==
  /\ appState = "READY"
  /\ uploadPc = "none"
  /\ audioFile.response.kind = "array"
  /\ Len(transcript) = 2
  /\ duration = MaxDuration
  /\ audioBuffer = audioFile

-----------------------------------------------------------------------------
(* Claims about the selection *)

\* C14: after any sequence of plain, shift and ctrl/meta clicks, the selection
\* effect having run, every selected id is the id of a segment of the transcript
\* and the selection range is null exactly when the selected set is empty (the
\* Extract and Play Selection buttons are rendered exactly when it is not).
C14_SelectionValid ==
  /\ \A id \in Elems(selectedSegmentIds) : Find(transcript, id) # 0
  /\ selectionRange.null <=> selectedSegmentIds = <<>>

\* A clip was extracted from a selection, and ctrl-clicks have since emptied the
\* selected set: the range is null again.
C14_Witness ==
  /\ appState = "READY"
  /\ Len(transcript) = 2
  /\ extractResult = "download"
  /\ selectedSegmentIds = <<>>
  /\ selectionRange.null

====
